---- MODULE Spec2Model ----
(***************************************************************************)
(* A state-machine model of the <core-suggest> custom element              *)
(* (src/packages/core-suggest/core-suggest.js).                            *)
(*                                                                         *)
(* The widget's state is the DOM state it reads and writes (attributes of  *)
(* the element, the candidates below it, the associated input), its        *)
(* private fields (_observer, _xhr, _xhrTime) and the browser's queues     *)
(* that hold its callbacks (mutation records, setTimeout callbacks, the    *)
(* debounce timers, requests in flight).  Every handler is one action.     *)
(*                                                                         *)
(* Strings are sequences of one-character strings.                         *)
(***************************************************************************)
EXTENDS Integers, Sequences, FiniteSets

(***************************************************************************)
(* Bounds of the model.                                                    *)
(***************************************************************************)
MaxItems == 2      \* candidates below the widget at a time
MaxLimit == 2      \* largest value of the limit attribute that is tried
MaxTimeouts == 2   \* setTimeout(fn) callbacks queued at a time
MaxOrphans == 1    \* requests in flight on XMLHttpRequests the widget let go of
MaxBurst == 2      \* keystrokes of a burst that are counted

VARIABLES
  observer,      \* self._observer is set: connectedCallback ran, disconnectedCallback did not
  items,         \* the <a>/<button> candidates below the widget, in document order
  limitAttr,     \* the limit attribute: <<>> when absent, <<n>> when present
  ajaxAttr,      \* the ajax attribute, "" (<<>>) when absent
  highlightAttr, \* the highlight attribute, "" when absent
  liveRegion,    \* the text of the aria-live region, "" when it has none
  hidden,        \* the widget has the hidden attribute
  ariaExpanded,  \* the input's aria-expanded attribute
  inputValue,    \* self.input.value
  focus,         \* document.activeElement: 0 the input, i >= 1 candidate i, -1 anything else
  records,       \* the MutationObserver has records queued (its callback is a pending microtask)
  timeouts,      \* the setTimeout(fn) callbacks not yet run, oldest first
  xhr,           \* self._xhr: the XMLHttpRequest of this attachment, or Null
  reqs,          \* the requests in flight, by id
  xhrTimers,     \* ids of the pending setTimeout(onAjaxSend, AJAX_DEBOUNCE) timers
  xhrTime,       \* self._xhrTime: the id of the timer set last, 0 when none was
  staleTimers,   \* pending debounce timers that were set before a disconnectedCallback
  burst,         \* the current burst of fetch-triggering keystrokes
  last           \* what the handler that ran last did: an onMutation pass, a run of
                 \* onAjaxSend, the completion of a request

vars == <<observer, items, limitAttr, ajaxAttr, highlightAttr, liveRegion, hidden,
          ariaExpanded, inputValue,
          focus, records, timeouts, xhr, reqs, xhrTimers, xhrTime,
          staleTimers, burst, last>>

ajaxVars == <<xhr, reqs, xhrTimers, xhrTime, staleTimers, burst>>

(***************************************************************************)
(* Strings.                                                                *)
(***************************************************************************)
\* The texts the host page gives to candidates.
Texts == {<<"a">>, <<"A", "b">>}

\* The values a keystroke can leave in the input.
Values == {<<>>, <<"a">>, <<"b">>}

\* The values a keystroke can leave in the input of the widget with a remote endpoint.
AjaxValues == {<<>>, <<"a", " ">>}

\* String.prototype.toLowerCase, on the characters of the model.
LowerChar(c) == IF c = "A" THEN "a" ELSE IF c = "B" THEN "b" ELSE c

toLowerCase(s) == [i \in DOMAIN s |-> LowerChar(s[i])]

\* String.prototype.indexOf(needle) !== -1
Contains(hay, needle) ==
  \E k \in 0..(Len(hay) - Len(needle)) :
    \A j \in 1..Len(needle) : hay[k + j] = needle[j]

RECURSIVE TrimStart(_)
TrimStart(s) == IF s # <<>> /\ Head(s) = " " THEN TrimStart(Tail(s)) ELSE s

RECURSIVE TrimEnd(_)
TrimEnd(s) ==
  IF s # <<>> /\ s[Len(s)] = " " THEN TrimEnd(SubSeq(s, 1, Len(s) - 1)) ELSE s

\* String.prototype.trim
trim(s) == TrimEnd(TrimStart(s))

(***************************************************************************)
(* Candidates.                                                             *)
(***************************************************************************)
\* A candidate as the host page inserts it: visible, not yet enhanced.  value
\* is the candidate's value property: that of an <a> is undefined, that of a
\* <button> is its value attribute, "" when it has none (<<>> stands for both).
\* marks are the <mark> elements in its text: <<from, to>> wraps the
\* characters from..to.
NewButton(text, value) ==
  [text |-> text, value |-> value, hidden |-> FALSE, tabindex |-> FALSE, label |-> <<>>,
   marks |-> {}]

NewItem(text) == NewButton(text, <<>>)

Min(a, b) == IF a < b THEN a ELSE b

\* The indexes of the candidates without the hidden attribute.
VisibleIdx(its) == {i \in DOMAIN its : ~its[i].hidden}

NVisible(its) == Cardinality(VisibleIdx(its))

InsertAt(s, k, e) == SubSeq(s, 1, k) \o <<e>> \o SubSeq(s, k + 1, Len(s))

RemoveAt(s, k) == SubSeq(s, 1, k - 1) \o SubSeq(s, k + 1, Len(s))

(***************************************************************************)
(* get limit: Math.max(0, this.getAttribute('limit')) || Infinity.         *)
(* A number is [inf |-> FALSE, n |-> n]; Infinity is [inf |-> TRUE].       *)
(***************************************************************************)
Infinity == [inf |-> TRUE, n |-> 0]

Finite(n) == [inf |-> FALSE, n |-> n]

\* Math.max(0, null) and Math.max(0, '0') are 0, which "||" turns into Infinity.
Limit(attr) ==
  LET n == IF attr = <<>> THEN 0 ELSE IF attr[1] > 0 THEN attr[1] ELSE 0
  IN  IF n = 0 THEN Infinity ELSE Finite(n)

\* The mutant: Math.max in the place of Math.min.
MathMinAsMax(len, lim) == IF lim.inf THEN len ELSE IF len > lim.n THEN len ELSE lim.n

\* Math.min(items.length, self.limit)
MathMin(len, lim) == IF lim.inf THEN len ELSE Min(len, lim.n)

(***************************************************************************)
(* onMutation, lines 146-164: the candidates it leaves.  The NodeList      *)
(* holds the candidates without the hidden attribute; the one at (0-based) *)
(* position r gets its label, its tabindex, and is hidden when r >= limit. *)
(***************************************************************************)
Rank(its, i) == Cardinality({j \in VisibleIdx(its) : j < i})

\* The mutant: the label gives the number of candidates found, not the limit.
LabelTotalAsLength(rank, length, limit) == <<rank + 1, length>>

\* Line 160: `${textContent}, ${i + 1} av ${limit}`, as <<position, total>>.
Label(rank, length, limit) == <<rank + 1, limit>>

\* The mutant: the comparison of toggleItem(items[i], i >= limit) off by one.
EnhancedOffByOne(its, lim) ==
  LET limit == MathMin(NVisible(its), lim)
  IN  [i \in DOMAIN its |->
        IF its[i].hidden THEN its[i]
        ELSE [its[i] EXCEPT !.label = Label(Rank(its, i), NVisible(its), limit),
                            !.tabindex = TRUE,
                            !.hidden = Rank(its, i) > limit]]

Enhanced(its, lim) ==
  LET limit == MathMin(NVisible(its), lim)
  IN  [i \in DOMAIN its |->
        IF its[i].hidden THEN its[i]
        ELSE [its[i] EXCEPT !.label = Label(Rank(its, i), NVisible(its), limit),
                            !.tabindex = TRUE,
                            !.hidden = Rank(its, i) >= limit]]

(***************************************************************************)
(* Highlighting, lines 73-75, 149-157 and 166-192 (not on IE11).           *)
(***************************************************************************)
\* get highlight: 'on' unless the attribute says off or keep.
Highlight(attr) == IF attr \in {"on", "off", "keep"} THEN attr ELSE "on"

\* self.textContent: the texts of the candidates, in document order.
RECURSIVE TextContent(_)
TextContent(its) ==
  IF its = <<>> THEN <<>> ELSE Head(its).text \o TextContent(Tail(its))

\* Lines 172-174: the (0-based) starts of the occurrences of needle in
\* haystack from start on, each search starting after the previous hit.
RECURSIVE Hits(_, _, _)
Hits(haystack, needle, start) ==
  LET found == {k \in start..(Len(haystack) - Len(needle)) :
                 \A j \in 1..Len(needle) : haystack[k + j] = needle[j]}
  IN  IF found = {} THEN {}
      ELSE LET k == CHOOSE x \in found : \A y \in found : x <= y
           IN  {k} \cup Hits(haystack, needle, k + Len(needle))

\* Lines 175-191: each text node gets a <mark> around the part of every hit
\* that lies in it.  The text of candidate i is the node that starts at
\* nodeStart in the widget's text.
Marked(its, needle) ==
  LET hits == Hits(toLowerCase(TextContent(its)), needle, 0)
      length == Len(needle)
  IN  [i \in DOMAIN its |->
        LET nodeStart == Len(TextContent(SubSeq(its, 1, i - 1)))
            nodeEnd == nodeStart + Len(its[i].text)
            hitStart(h) == IF h - nodeStart > 0 THEN h - nodeStart ELSE 0
            hitEnd(h) == Min(nodeEnd, h + length) - nodeStart
        IN  [its[i] EXCEPT !.marks =
              @ \cup {<<hitStart(h) + 1, hitEnd(h)>> : h \in {x \in hits : hitStart(x) < hitEnd(x)}}]]

\* The mutant: the old marks are removed in every mode.
UnmarkedAlways(its, mode) == [i \in DOMAIN its |-> [its[i] EXCEPT !.marks = {}]]

\* Lines 150-157: the old marks are removed unless the mode is keep.
Unmarked(its, mode) ==
  IF mode # "keep" THEN [i \in DOMAIN its |-> [its[i] EXCEPT !.marks = {}]] ELSE its

Highlighted(its) ==
  LET mode == Highlight(highlightAttr')
      needle == trim(toLowerCase(inputValue))
      kept == Unmarked(its, mode)
  IN  IF needle # <<>> /\ mode = "on" THEN Marked(kept, needle) ELSE kept

\* Nothing to tell of the handler that ran last.
NoLast == [op |-> ""]

\* onMutation(self): nothing when detached; else the pass, which ends by
\* emptying the observer's queue (takeRecords).
onMutation ==
  IF ~observer
    THEN /\ UNCHANGED <<items, records>>
         /\ last' = NoLast
    ELSE /\ items' = Highlighted(Enhanced(items, Limit(limitAttr)))
         /\ records' = FALSE
         /\ last' = [op |-> "onMutation", total |-> Len(items), before |-> NVisible(items)]


(***************************************************************************)
(* (self.hidden = val), lines 80-82 and 37-41: the attribute is toggled;   *)
(* when that changes it, attributeChangedCallback syncs aria-expanded      *)
(* (unless detached) and the observer, which watches the hidden attribute  *)
(* of the widget and of everything below it, queues a record.              *)
(***************************************************************************)
setHidden(val) ==
  /\ hidden' = val
  /\ IF hidden # val /\ observer
       THEN ariaExpanded' = (IF val THEN "false" ELSE "true") /\ records' = TRUE
       ELSE UNCHANGED <<ariaExpanded, records>>

\* The browser's focus fixup: a focused candidate that is no longer rendered
\* (it or the widget got the hidden attribute) loses the focus to the body.
FixFocus(f, hid, its) == IF f >= 1 /\ (hid \/ its[f].hidden) THEN -1 ELSE f

\* A setTimeout(() => (self.hidden = val)) callback (lines 234 and 256), with
\* the event whose handler queued it: its type, its target, its key.
Deferred(val, type, target, key) ==
  [fn |-> "hidden", val |-> val, type |-> type, target |-> target, key |-> key]

(***************************************************************************)
(* notifyResultsVisible, lines 112-121: the live region gets the label, or *)
(* is cleared.  Nothing in the source calls it.                            *)
(***************************************************************************)
LiveLabel == "Sokeresultater vises"

notifyResultsVisible(clear) ==
  liveRegion' = IF ~observer THEN liveRegion ELSE IF clear THEN "" ELSE LiveLabel

(***************************************************************************)
(* The host page.                                                          *)
(***************************************************************************)
\* The host page sets the highlight attribute: attributeChangedCallback
\* (lines 37-41) runs onMutation at once, unless the widget is detached.
HighlightAttrs == {"", "on", "off", "keep"}

SetHighlight(attr) ==
  /\ highlightAttr' = attr
  /\ onMutation
  /\ focus' = FixFocus(focus, hidden, items')
  /\ UNCHANGED <<observer, limitAttr, ajaxAttr, liveRegion, hidden, ariaExpanded,
                 inputValue, timeouts>>
  /\ UNCHANGED ajaxVars

\* The host page inserts a candidate before position k + 1.
HostInsert(k, text) ==
  /\ Len(items) < MaxItems
  /\ items' = InsertAt(items, k, NewItem(text))
  /\ focus' = IF focus > k THEN focus + 1 ELSE focus
  /\ records' = (records \/ observer)
  /\ last' = NoLast
  /\ UNCHANGED <<observer, limitAttr, ajaxAttr, highlightAttr, liveRegion, hidden,
                 ariaExpanded, inputValue, timeouts>>
  /\ UNCHANGED ajaxVars

\* The host page removes candidate k; focus on it is lost.
HostRemove(k) ==
  /\ k \in DOMAIN items
  /\ items' = RemoveAt(items, k)
  /\ focus' = IF focus = k THEN -1 ELSE IF focus > k THEN focus - 1 ELSE focus
  /\ records' = (records \/ observer)
  /\ last' = NoLast
  /\ UNCHANGED <<observer, limitAttr, ajaxAttr, highlightAttr, liveRegion, hidden,
                 ariaExpanded, inputValue, timeouts>>
  /\ UNCHANGED ajaxVars

(***************************************************************************)
(* XMLHttpRequest objects.  status and responseText are the browser's,     *)
(* responseError and responseJSON are the properties the widget adds       *)
(* ("" stands for null and undefined).                                     *)
(***************************************************************************)
Null == [null |-> TRUE]

NewXhr == [null |-> FALSE, inflight |-> FALSE, req |-> 0, status |-> 0,
           responseText |-> "", responseError |-> "", responseJSON |-> ""]

\* The request in flight on self._xhr, as a set.
Current(x) == IF x # Null /\ x.inflight THEN {x.req} ELSE {}

\* The requests in flight on XMLHttpRequests self._xhr no longer refers to.
Orphans == DOMAIN reqs \ Current(xhr)

\* The smallest id not in use.
FreshId(used) ==
  CHOOSE n \in 1..(Cardinality(used) + 1) : n \notin used /\ \A m \in 1..(n - 1) : m \in used

(***************************************************************************)
(* connectedCallback, lines 9-25.                                          *)
(***************************************************************************)
Connect ==
  /\ ~observer
  /\ Len(timeouts) < MaxTimeouts
  /\ observer' = TRUE
  /\ xhr' = NewXhr
  /\ timeouts' = Append(timeouts, [fn |-> "onMutation", val |-> FALSE])
  \* this.hidden = false when the input is the active element: _observer is
  \* set by now, so the change syncs aria-expanded and queues a record
  /\ IF focus = 0 /\ hidden
       THEN hidden' = FALSE /\ ariaExpanded' = "true" /\ records' = TRUE
       ELSE hidden' = hidden /\ ariaExpanded' = "false" /\ records' = records
  /\ last' = NoLast
  /\ UNCHANGED <<items, limitAttr, ajaxAttr, highlightAttr, liveRegion, inputValue, focus>>
  /\ UNCHANGED <<reqs, xhrTimers, xhrTime, staleTimers, burst>>

(***************************************************************************)
(* disconnectedCallback, lines 27-35: the observer is disconnected (its    *)
(* queue is dropped) and the fields are set to null.  Neither the debounce *)
(* timer nor the request in flight is touched: the request goes on, on an  *)
(* XMLHttpRequest the widget no longer refers to.                          *)
(***************************************************************************)
Disconnect ==
  /\ observer
  /\ Cardinality(DOMAIN reqs) <= MaxOrphans
  /\ observer' = FALSE
  /\ records' = FALSE
  /\ xhr' = Null
  /\ staleTimers' = xhrTimers
  /\ reqs' = [r \in DOMAIN reqs |-> [reqs[r] EXCEPT !.detached = TRUE]]
  /\ last' = NoLast
  /\ UNCHANGED <<items, limitAttr, ajaxAttr, highlightAttr, liveRegion, hidden, ariaExpanded,
                 inputValue, focus, timeouts>>
  /\ UNCHANGED <<xhrTimers, xhrTime, burst>>

(***************************************************************************)
(* The MutationObserver's callback (line 10), a microtask: it runs before  *)
(* any other task once records are queued.                                 *)
(***************************************************************************)
MutationCallback ==
  /\ records
  /\ UNCHANGED <<observer, limitAttr, ajaxAttr, highlightAttr, liveRegion, hidden, ariaExpanded,
                 inputValue, timeouts>>
  /\ onMutation
  /\ focus' = FixFocus(focus, hidden, items')
  /\ UNCHANGED ajaxVars

(***************************************************************************)
(* The oldest setTimeout(fn) callback runs: onMutation (line 23), or       *)
(* self.hidden = val (lines 234 and 256).                                  *)
(***************************************************************************)
RunTimeout ==
  /\ timeouts # <<>>
  /\ ~records
  /\ timeouts' = Tail(timeouts)
  /\ UNCHANGED <<observer, limitAttr, ajaxAttr, highlightAttr, liveRegion, inputValue>>
  /\ IF Head(timeouts).fn = "onMutation"
       THEN onMutation /\ UNCHANGED <<hidden, ariaExpanded>>
       ELSE /\ setHidden(Head(timeouts).val)
            /\ last' = [op |-> "setHidden", type |-> Head(timeouts).type,
                        target |-> Head(timeouts).target, key |-> Head(timeouts).key]
            /\ UNCHANGED items
  /\ focus' = FixFocus(focus, hidden', items')
  /\ UNCHANGED ajaxVars

(***************************************************************************)
(* The remote endpoint: the ajax attribute, with "{{value}}" one token.    *)
(***************************************************************************)
Template == <<"?", "q", "=", "{{value}}">>

\* window.encodeURIComponent on one character, and on a string.
EncodeChar(c) == IF c = " " THEN <<"%", "2", "0">> ELSE <<c>>

RECURSIVE encodeURIComponent(_)
encodeURIComponent(s) ==
  IF s = <<>> THEN <<>> ELSE EncodeChar(Head(s)) \o encodeURIComponent(Tail(s))

\* String.prototype.replace('{{value}}', by): the first occurrence only.
RECURSIVE replace(_, _)
replace(url, by) ==
  IF url = <<>> THEN <<>>
  ELSE IF Head(url) = "{{value}}" THEN by \o Tail(url)
  ELSE <<Head(url)>> \o replace(Tail(url), by)

\* The URL of line 300.
Url(value) == replace(ajaxAttr, encodeURIComponent(value))

(***************************************************************************)
(* A request in flight: what was dispatched and sent for it, and what      *)
(* happened to the widget since.                                           *)
(***************************************************************************)
NewReq(canceled, stale) ==
  [value      |-> inputValue,       \* the input's value when it was sent
   url        |-> Url(inputValue),  \* the URL it was opened with
   canceled   |-> canceled,         \* a listener canceled its suggest.ajax.beforeSend
   staleTimer |-> stale,            \* its timer was set before a detachment
   detached   |-> FALSE,            \* a detachment happened while it was in flight
   superseded |-> FALSE]            \* a later keystroke asked for a fetch while it was in flight

\* The completion of a request: the request, how it completed ("load" or
\* "error", the status, the body: "json" when it parses, else "malformed"),
\* and what its handler did: the notifications dispatched, or a throw.
Done(req, kind, status, body, res) ==
  [op |-> kind, req |-> req, status |-> status, body |-> body,
   threw |-> res.threw, outcomes |-> res.outcomes]

Notification(type, x) == [type |-> type, responseError |-> x.responseError]

\* A burst: its keystrokes so far, the value the last one left, the timers
\* they set, the requests those timers sent.
NoBurst == [len |-> 0, last |-> <<>>, timers |-> {}, sends |-> 0]

\* XMLHttpRequest.abort(): a request in flight is terminated without load or
\* error; the response is reset.
Aborted(x) == [x EXCEPT !.inflight = FALSE, !.status = 0, !.responseText = ""]

\* The mutant: onAjax without clearTimeout(self._xhrTime).
TimersAfterKeyKeepOld(id) == xhrTimers \cup {id}

\* Lines 266 and 269: the pending timer is cleared and a new one set.
TimersAfterKey(id) == (xhrTimers \ {xhrTime}) \cup {id}

\* Lines 267-268: the request in flight is aborted, responseError reset.
XhrAfterKey(x) == [Aborted(x) EXCEPT !.responseError = ""]

(***************************************************************************)
(* onAjax, lines 264-271, for a widget with an ajax attribute.             *)
(***************************************************************************)
onAjax ==
  LET id == FreshId(xhrTimers)
      continues == xhrTime \in xhrTimers   \* the previous keystroke's timer has not fired
      x == XhrAfterKey(xhr)
  IN  /\ xhrTimers' = TimersAfterKey(id)
      /\ staleTimers' = staleTimers \cap xhrTimers'
      /\ xhrTime' = id
      /\ xhr' = x
      \* the aborted request is gone; the others have been superseded
      /\ reqs' = [r \in Orphans \cup Current(x) |-> [reqs[r] EXCEPT !.superseded = TRUE]]
      /\ burst' = IF continues
                    THEN [burst EXCEPT !.len = @ + 1, !.last = inputValue',
                                       !.timers = (@ \cap xhrTimers') \cup {id}]
                    ELSE [NoBurst EXCEPT !.len = 1, !.last = inputValue', !.timers = {id}]

(***************************************************************************)
(* onInput, lines 205-213, for an input event on the widget's input, whose *)
(* value it changed to value; cancel: a listener canceled suggest.filter.  *)
(***************************************************************************)
\* The mutant: the candidate's text is matched, whatever its value.
ValueOrTextAsText(item) == item.text

\* item.value || item.textContent (lines 211 and 251).
ValueOrText(item) == IF item.value # <<>> THEN item.value ELSE item.text

Filtered(its, value) ==
  [i \in DOMAIN its |->
    [its[i] EXCEPT !.hidden = ~Contains(toLowerCase(ValueOrText(its[i])), toLowerCase(value))]]

\* The mutant: the result of dispatchEvent(self, 'suggest.filter') is ignored.
FilterProceedsAlways(cancel) == TRUE

\* Line 206: dispatchEvent returns false when a listener canceled suggest.filter.
FilterProceeds(cancel) == ~cancel

OnInput(value, cancel) ==
  /\ observer
  /\ ~records
  /\ value # inputValue
  /\ ajaxAttr # <<>> /\ ~cancel /\ xhrTime \in xhrTimers => burst.len < MaxBurst
  /\ inputValue' = value
  /\ last' = [op |-> "onInput", canceled |-> cancel]
  /\ IF ~FilterProceeds(cancel)
       THEN UNCHANGED <<items, records>> /\ UNCHANGED ajaxVars
       ELSE IF ajaxAttr # <<>>
         THEN onAjax /\ UNCHANGED <<items, records>>
         ELSE /\ items' = Filtered(items, value)
              /\ records' = (items' # items)
              /\ UNCHANGED ajaxVars
  /\ focus' = FixFocus(focus, hidden, items')
  /\ UNCHANGED <<observer, limitAttr, ajaxAttr, highlightAttr, liveRegion, hidden,
                 ariaExpanded, timeouts>>

(***************************************************************************)
(* onAjaxSend, lines 282-304, run by debounce timer t; cancel: a listener  *)
(* canceled suggest.ajax.beforeSend.                                       *)
(***************************************************************************)
\* The mutant: line 283 without the test of the input's value.
SendGuardNoEmptyTest == observer

\* Line 283: not after disconnectedCallback, not with an empty input.
SendGuard == observer /\ inputValue # <<>>

\* The mutant: the result of dispatchEvent is ignored.
ProceedsAlways(cancel) == TRUE

\* Line 284: dispatchEvent returns false when a listener canceled the event.
Proceeds(cancel) == ~cancel

OnAjaxSend(t, cancel) ==
  /\ t \in xhrTimers
  /\ ~records
  /\ ~SendGuard => ~cancel
  /\ xhrTimers' = xhrTimers \ {t}
  /\ staleTimers' = staleTimers \ {t}
  /\ LET sends == SendGuard /\ Proceeds(cancel)
         id == FreshId(Orphans)
     IN  \* open() and send(): a request still in flight on self._xhr is
         \* terminated by open(), the new one is in flight
         /\ xhr' = IF sends
                     THEN [xhr EXCEPT !.inflight = TRUE, !.req = id,
                                      !.status = 0, !.responseText = ""]
                     ELSE xhr
         /\ reqs' = IF sends
                      THEN [r \in Orphans \cup {id} |->
                             IF r = id THEN NewReq(cancel, t \in staleTimers) ELSE reqs[r]]
                      ELSE reqs
         /\ last' = [op |-> "onAjaxSend", attached |-> observer, value |-> inputValue,
                     announced |-> SendGuard, canceled |-> cancel, sent |-> sends,
                     url |-> IF sends THEN Url(inputValue) ELSE <<>>,
                     stale |-> t \in staleTimers, inBurst |-> t \in burst.timers]
         /\ burst' = IF sends /\ t \in burst.timers
                       THEN [burst EXCEPT !.sends = @ + 1]
                       ELSE burst
  /\ UNCHANGED <<observer, items, limitAttr, ajaxAttr, highlightAttr, liveRegion, hidden,
                 ariaExpanded, inputValue,
                 focus, records, timeouts>>
  /\ UNCHANGED xhrTime

(***************************************************************************)
(* Completion of request r.  The response lands on the XMLHttpRequest that *)
(* carried it; onload and onerror (lines 285-299) then read self._xhr,     *)
(* whichever object that is by now.                                        *)
(***************************************************************************)
\* self._xhr once request r completed with (status, body).
Landed(r, status, body) ==
  IF r \in Current(xhr)
    THEN [xhr EXCEPT !.inflight = FALSE, !.status = status, !.responseText = body]
    ELSE xhr

\* onload, lines 289-299: [xhr, outcomes, threw] for self._xhr = x.
onload(x) ==
  IF x = Null
    THEN [xhr |-> x, outcomes |-> <<>>, threw |-> TRUE]
  ELSE IF x.status # 200
    THEN [xhr |-> x, outcomes |-> <<Notification("suggest.ajax.error", x)>>, threw |-> FALSE]
  ELSE IF x.responseText = "json"
    THEN LET y == [x EXCEPT !.responseJSON = "parsed"]
         IN  [xhr |-> y, outcomes |-> <<Notification("suggest.ajax", y)>>, threw |-> FALSE]
  ELSE LET y == [x EXCEPT !.responseJSON = "false", !.responseError = "SyntaxError"]
       IN  [xhr |-> y,
            outcomes |-> <<Notification("suggest.ajax.error", y), Notification("suggest.ajax", y)>>,
            threw |-> FALSE]

\* onerror, lines 285-288.
onerror(x) ==
  IF x = Null
    THEN [xhr |-> x, outcomes |-> <<>>, threw |-> TRUE]
    ELSE LET y == [x EXCEPT !.responseError = "Error: Network request failed"]
         IN  [xhr |-> y, outcomes |-> <<Notification("suggest.ajax.error", y)>>, threw |-> FALSE]

Completed(r, kind, status, body, res) ==
  /\ xhr' = res.xhr
  /\ reqs' = [q \in DOMAIN reqs \ {r} |-> reqs[q]]
  /\ last' = Done(reqs[r], kind, status, body, res)
  /\ UNCHANGED <<observer, items, limitAttr, ajaxAttr, highlightAttr, liveRegion, hidden,
                 ariaExpanded, inputValue,
                 focus, records, timeouts>>
  /\ UNCHANGED <<xhrTimers, xhrTime, staleTimers, burst>>

Responses == {<<200, "json">>, <<200, "malformed">>, <<404, "malformed">>}

XhrLoad(r, status, body) ==
  /\ r \in DOMAIN reqs
  /\ ~records
  /\ Completed(r, "load", status, body, onload(Landed(r, status, body)))

XhrError(r) ==
  /\ r \in DOMAIN reqs
  /\ ~records
  /\ Completed(r, "error", 0, "", onerror(Landed(r, 0, "")))

(***************************************************************************)
(* onClick, lines 246-257, for a click or focusin event; target: 0 the     *)
(* input, i >= 1 candidate i, -1 outside; cancel: a listener canceled      *)
(* suggest.select.  input.focus() on line 252 dispatches focusin when the  *)
(* focus was elsewhere, which runs onClick again, inside this handler.     *)
(***************************************************************************)
\* The mutant: line 247 without the test of the event's type.
ClickedItemAnyType(type, target) == target >= 1

\* Line 247: the candidate a click event is on, as a boolean.
ClickedItem(type, target) == type = "click" /\ target >= 1

\* The mutant: line 248 without the test of item.
ShowAlsoOnItem(type, target) == target >= 0

\* Line 248: the event is on the input or inside the widget, not a click on
\* a candidate.
Show(type, target) == ~ClickedItem(type, target) /\ target >= 0

\* Line 251: item.value || item.textContent.trim()
Selected(item) == IF item.value # <<>> THEN item.value ELSE trim(item.text)

\* The callbacks that element.focus() queues when it moves the focus from
\* from to to: focusin is dispatched at once and runs onClick, which selects
\* nothing and queues its callback.
FocusIn(from, to) ==
  IF from = to THEN <<>> ELSE <<Deferred(~Show("focusin", to), "focusin", to, "")>>

OnClick(type, target, cancel) ==
  LET item == ClickedItem(type, target)
      was == IF type = "focusin" THEN target ELSE focus
      selected == item /\ ~cancel
  IN  /\ observer
      /\ ~records
      /\ Len(timeouts) + 2 <= MaxTimeouts
      /\ target >= 1 => target \in DOMAIN items /\ ~hidden /\ ~items[target].hidden
      /\ type = "focusin" => target # focus
      /\ ~item => ~cancel
      /\ inputValue' = IF selected THEN Selected(items[target]) ELSE inputValue
      /\ focus' = IF selected THEN 0 ELSE was
      /\ timeouts' = timeouts \o (IF selected THEN FocusIn(was, 0) ELSE <<>>)
                              \o <<Deferred(~Show(type, target), type, target, "")>>
      /\ last' = [op |-> "onClick", type |-> type, target |-> target,
                  select |-> item, canceled |-> cancel,
                  chosen |-> IF item THEN Selected(items[target]) ELSE <<>>,
                  before |-> inputValue]
      /\ UNCHANGED <<observer, items, limitAttr, ajaxAttr, highlightAttr, liveRegion, hidden,
                     ariaExpanded, records>>
      /\ UNCHANGED ajaxVars

(***************************************************************************)
(* onKey, lines 221-237, for a keydown event on the focused element        *)
(* (0 the input, i >= 1 candidate i).  Keys: "Down", "Up", "End" (and      *)
(* PageDown), "Home" (and PageUp), "Enter", "Escape", "Other".             *)
(***************************************************************************)
Keys == {"Down", "Up", "End", "Home", "Enter", "Escape", "Other"}

\* The elements of set, ascending.
RECURSIVE Ascending(_)
Ascending(set) ==
  IF set = {} THEN <<>>
  ELSE LET m == CHOOSE x \in set : \A y \in set : x <= y
       IN  <<m>> \o Ascending(set \ {m})

\* The mutant: line 223 without :not([hidden]).
KeyItemsWithHidden(its) == <<0>> \o Ascending({i \in DOMAIN its : its[i].tabindex})

\* Line 223: [self.input].concat(queryAll('[tabindex="-1"]:not([hidden])', self))
KeyItems(its) == <<0>> \o Ascending({i \in DOMAIN its : its[i].tabindex /\ ~its[i].hidden})

\* Array.prototype.indexOf, 0-based, -1 when absent.
IndexOf(list, x) ==
  IF \E k \in DOMAIN list : list[k] = x
    THEN (CHOOSE k \in DOMAIN list : list[k] = x) - 1
    ELSE -1

\* list[k], 0-based: <<>> stands for undefined.
At(list, k) == IF k + 1 \in DOMAIN list THEN <<list[k + 1]>> ELSE <<>>

\* a || b
Or(a, b) == IF a # <<>> THEN a ELSE b

\* Lines 224-230: the element the key moves the focus to, <<>> when none.
KeyItem(key, target, list) ==
  LET idx == IndexOf(list, target)
  IN  IF key = "Down" THEN Or(At(list, idx + 1), At(list, 0))
      ELSE IF key = "Up" THEN Or(At(list, idx - 1), At(list, Len(list) - 1))
      ELSE IF target >= 1 /\ key = "End" THEN At(list, Len(list) - 1)
      ELSE IF target >= 1 /\ key = "Home" THEN At(list, 1)
      ELSE <<>>

\* Line 231: any other key but Enter, inside the list, focuses the input.
FocusesInput(key, target) == target >= 1 /\ key \in {"Escape", "Other"}

\* The mutant: the callback of line 234 never hides.
EscHidesNever(key) == FALSE

\* Line 234: self.hidden = keyCode === KEYS.ESC
EscHides(key) == key = "Escape"

\* element.focus() on element to while from has the focus: the input takes
\* the focus; a candidate takes it when it is rendered, that is when neither
\* it nor the widget has the hidden attribute.
Focused(from, to) ==
  IF to = 0 \/ (~hidden /\ ~items[to].hidden) THEN to ELSE from

OnKey(key) ==
  LET target == focus
      item == KeyItem(key, target, KeyItems(items))
      f1 == IF FocusesInput(key, target) THEN Focused(target, 0) ELSE target
      f2 == IF item # <<>> THEN Focused(f1, item[1]) ELSE f1
  IN  /\ observer
      /\ ~records
      /\ target >= 0
      /\ Len(timeouts) + 2 <= MaxTimeouts
      /\ focus' = f2
      /\ timeouts' = timeouts \o FocusIn(target, f1)
                              \o <<Deferred(EscHides(key), "keydown", target, key)>>
                              \o FocusIn(f1, f2)
      /\ last' = [op |-> "onKey", key |-> key, target |-> target,
                  select |-> \/ f1 # target /\ ClickedItem("focusin", f1)
                             \/ f2 # f1 /\ ClickedItem("focusin", f2)]
      /\ UNCHANGED <<observer, items, limitAttr, ajaxAttr, highlightAttr, liveRegion, hidden,
                     ariaExpanded,
                     inputValue, records>>
      /\ UNCHANGED ajaxVars

(***************************************************************************)
(* handleEvent, line 48: a click or keydown event with ctrl, alt or meta   *)
(* held, or whose default was prevented, is ignored.                       *)
(***************************************************************************)
Ignored(type) ==
  /\ observer
  /\ ~records
  /\ last' = [op |-> "ignored", type |-> type]
  /\ UNCHANGED <<observer, items, limitAttr, ajaxAttr, highlightAttr, liveRegion, hidden,
                 ariaExpanded, inputValue,
                 focus, records, timeouts>>
  /\ UNCHANGED ajaxVars

(***************************************************************************)
(* The element as constructed, before it is attached.                      *)
(***************************************************************************)
LimitAttrs == {<<>>} \cup {<<n>> : n \in 0..MaxLimit}

InitWith(ajax, its, limits, hiddens, focuses) ==
  /\ observer = FALSE
  \* highlighting starts switched off; the host page switches it (SetHighlight)
  /\ highlightAttr = "off"
  /\ liveRegion = ""
  /\ items = its
  /\ limitAttr \in limits
  /\ ajaxAttr = ajax
  /\ hidden \in hiddens
  /\ ariaExpanded = "none"
  /\ inputValue = <<>>
  /\ focus \in focuses
  /\ records = FALSE
  /\ timeouts = <<>>
  /\ last = NoLast
  /\ xhr = Null
  /\ reqs = <<>>
  /\ xhrTimers = {}
  /\ xhrTime = 0
  /\ staleTimers = {}
  /\ burst = NoBurst

(***************************************************************************)
(* The widget without a remote endpoint: the host page inserts and removes *)
(* candidates, the user types, the widget filters and limits.              *)
(***************************************************************************)
Init == InitWith(<<>>, <<>>, LimitAttrs, BOOLEAN, {-1, 0})

Next ==
  \/ Connect
  \/ Disconnect
  \/ \E k \in 0..Len(items), text \in Texts : HostInsert(k, text)
  \/ \E k \in DOMAIN items : HostRemove(k)
  \/ \E value \in Values, cancel \in BOOLEAN : OnInput(value, cancel)
  \/ MutationCallback
  \/ RunTimeout

Spec == Init /\ [][Next]_vars

(***************************************************************************)
(* The widget with a remote endpoint and no limit, its list shown and its  *)
(* input focused: the user types, the debounce timer fires, requests       *)
(* complete, the host page detaches and attaches the widget.               *)
(***************************************************************************)
InitAjax == InitWith(Template, <<>>, {<<>>}, {FALSE}, {0})

NextAjax ==
  \/ Connect
  \/ Disconnect
  \/ \E value \in AjaxValues, cancel \in BOOLEAN : OnInput(value, cancel)
  \/ \E t \in xhrTimers, cancel \in BOOLEAN : OnAjaxSend(t, cancel)
  \/ \E r \in DOMAIN reqs, resp \in Responses : XhrLoad(r, resp[1], resp[2])
  \/ \E r \in DOMAIN reqs : XhrError(r)
  \/ RunTimeout

SpecAjax == InitAjax /\ [][NextAjax]_vars

(***************************************************************************)
(* The same widget with two candidates, up to the sending of requests: the *)
(* user types and selects candidates, the debounce timer fires.            *)
(***************************************************************************)
InitBurst ==
  InitWith(Template, <<NewItem(<<"b", " ">>), NewItem(<<" ">>)>>, {<<>>}, {FALSE}, {0})

NextBurst ==
  \/ Connect
  \/ Disconnect
  \/ \E value \in AjaxValues, cancel \in BOOLEAN : OnInput(value, cancel)
  \/ \E t \in xhrTimers, cancel \in BOOLEAN : OnAjaxSend(t, cancel)
  \/ \E i \in DOMAIN items, cancel \in BOOLEAN : OnClick("click", i, cancel)
  \/ MutationCallback
  \/ RunTimeout

SpecBurst == InitBurst /\ [][NextBurst]_vars


(***************************************************************************)
(* The widget without a remote endpoint and with two candidates, an <a>    *)
(* and a <button> that has a value: the user types, moves the focus with   *)
(* the keyboard and the pointer, and clicks.                               *)
(***************************************************************************)
KeysItems == <<NewItem(<<"a", " ">>), NewButton(<<"A", "b">>, <<"b">>)>>

InitKeys == InitWith(<<>>, KeysItems, {<<>>, <<1>>}, BOOLEAN, {-1, 0})

NextKeys ==
  \/ Connect
  \/ Disconnect
  \/ \E value \in Values, cancel \in BOOLEAN : OnInput(value, cancel)
  \/ \E key \in Keys : OnKey(key)
  \/ \E type \in {"click", "focusin"}, target \in -1..Len(items), cancel \in BOOLEAN :
       OnClick(type, target, cancel)
  \/ \E type \in {"click", "keydown"} : Ignored(type)
  \/ MutationCallback
  \/ RunTimeout

SpecKeys == InitKeys /\ [][NextKeys]_vars


(***************************************************************************)
(* The widget without a remote endpoint and without a limit, its list      *)
(* shown: the host page inserts and removes candidates and sets the        *)
(* highlight attribute, the user types.                                    *)
(***************************************************************************)
\* The values a keystroke can leave in the input of this widget.
MarkValues == {<<>>, <<"a", " ">>, <<"b", "a">>}

InitMarks == InitWith(<<>>, <<>>, {<<>>}, {FALSE}, {0})

NextMarks ==
  \/ Connect
  \/ Disconnect
  \/ \E k \in 0..Len(items), text \in Texts : HostInsert(k, text)
  \/ \E k \in DOMAIN items : HostRemove(k)
  \/ \E value \in MarkValues, cancel \in BOOLEAN : OnInput(value, cancel)
  \/ \E attr \in HighlightAttrs : SetHighlight(attr)
  \/ MutationCallback
  \/ RunTimeout

SpecMarks == InitMarks /\ [][NextMarks]_vars

(***************************************************************************)
(* The widget with and without a remote endpoint, with two candidates, the *)
(* second one hidden by the host page: the user types, the debounce timer  *)
(* fires.                                                                  *)
(***************************************************************************)
FilterItems == <<NewItem(<<"a">>), [NewItem(<<"A", "b">>) EXCEPT !.hidden = TRUE]>>

InitFilter ==
  \/ InitWith(<<>>, FilterItems, {<<>>, <<1>>}, BOOLEAN, {0})
  \/ InitWith(Template, FilterItems, {<<>>, <<1>>}, BOOLEAN, {0})

NextFilter ==
  \/ Connect
  \/ Disconnect
  \/ \E value \in Values, cancel \in BOOLEAN : OnInput(value, cancel)
  \/ \E t \in xhrTimers, cancel \in BOOLEAN : OnAjaxSend(t, cancel)
  \/ MutationCallback
  \/ RunTimeout

SpecFilter == InitFilter /\ [][NextFilter]_vars

(***************************************************************************)
(* The limit (Spec).                                                       *)
(***************************************************************************)
\* C1, as claimed: after a mutation pass over N candidates, exactly min(N, L)
\* are visible, L the limit attribute, an absent one being unlimited.
C1_AsClaimed ==
  last.op = "onMutation" =>
    NVisible(items) = IF limitAttr = <<>> THEN last.total ELSE Min(last.total, limitAttr[1])

\* C1, amended: after a mutation pass that found V candidates visible, exactly
\* min(V, L) are visible for a limit attribute L >= 1, and all V for an absent
\* limit or a limit of 0.
C1_PassLeavesMin ==
  last.op = "onMutation" =>
    NVisible(items) = IF limitAttr = <<>> \/ limitAttr[1] = 0
                        THEN last.before
                        ELSE Min(last.before, limitAttr[1])

\* A pass that found more candidates visible than the limit allows.
C1_Witness ==
  /\ last.op = "onMutation"
  /\ limitAttr # <<>>
  /\ limitAttr[1] >= 1
  /\ last.before > limitAttr[1]

\* No pass is pending: neither the observer's callback nor a deferred
\* onMutation.
NoPassPending ==
  /\ ~records
  /\ \A i \in DOMAIN timeouts : timeouts[i].fn # "onMutation"

\* C2, as claimed: in every state of an attached widget with limit L, at most
\* L candidates are visible.
C2_AsClaimed ==
  observer /\ limitAttr # <<>> => NVisible(items) <= limitAttr[1]

\* C2, amended: in every state of an attached widget with limit L >= 1 in
\* which no mutation pass is pending, at most L candidates are visible.
C2_AtMostLimitOncePassed ==
  observer /\ NoPassPending /\ limitAttr # <<>> /\ limitAttr[1] >= 1 =>
    NVisible(items) <= limitAttr[1]

\* The limit holds one of two candidates back that both match what was typed.
C2_Witness ==
  /\ observer
  /\ NoPassPending
  /\ limitAttr = <<1>>
  /\ inputValue = <<"a">>
  /\ Len(items) = 2
  /\ \A i \in DOMAIN items : Contains(toLowerCase(items[i].text), inputValue)
  /\ NVisible(items) = 1

(***************************************************************************)
(* Typing, keys, clicks and focus (SpecKeys).                              *)
(***************************************************************************)
\* C11, as claimed: without a remote endpoint, a keystroke whose
\* suggest.filter is not canceled leaves a candidate visible if and only if
\* its text contains the typed value, case-insensitively.
C11_AsClaimed ==
  last.op = "onInput" /\ ~last.canceled /\ ajaxAttr = <<>> =>
    \A i \in DOMAIN items :
      ~items[i].hidden <=> Contains(toLowerCase(items[i].text), toLowerCase(inputValue))

\* C11, amended: such a keystroke leaves a candidate visible if and only if
\* its value, or its text when it has no value, contains the typed value,
\* case-insensitively.
C11_VisibleIffMatches ==
  last.op = "onInput" /\ ~last.canceled /\ ajaxAttr = <<>> =>
    \A i \in DOMAIN items :
      LET hay == IF items[i].value # <<>> THEN items[i].value ELSE items[i].text
      IN  ~items[i].hidden <=> Contains(toLowerCase(hay), toLowerCase(inputValue))

\* Typing "a", present in one candidate only, hid the other one, and showed
\* the one the limit had hidden.
C11_Witness ==
  /\ last.op = "onInput"
  /\ ~last.canceled
  /\ inputValue = <<"b">>
  /\ limitAttr = <<1>>
  /\ items[1].hidden
  /\ ~items[2].hidden
  /\ items[2].tabindex

\* The visible candidates in document order, after the input.
Cycle(its) == <<0>> \o Ascending(VisibleIdx(its))

InCycle(its, x) == \E k \in DOMAIN Cycle(its) : Cycle(its)[k] = x

\* The element after (by = 1) or before (by = -1) x in the cycle.
Around(its, x, by) ==
  LET c == Cycle(its)
  IN  c[((IndexOf(c, x) + by + Len(c)) % Len(c)) + 1]

\* C12, as claimed: Down and Up move the focus along the cycle [input,
\* visible candidates in document order], forwards and backwards.
C12_AsClaimed ==
  [][last'.op = "onKey" /\ last'.key \in {"Down", "Up"} /\ InCycle(items, focus) =>
       focus' = Around(items, focus, IF last'.key = "Down" THEN 1 ELSE -1)]_vars

\* C12, amended: when no mutation pass is pending, Down and Up move the focus
\* along that cycle while the list is shown; while the list is hidden they
\* leave the focus on the input instead of moving it to a candidate; a
\* hidden candidate is never focused.
C12_TraversalWhenShown ==
  [][last'.op = "onKey" /\ last'.key \in {"Down", "Up"} /\ InCycle(items, focus)
       /\ NoPassPending =>
       LET to == Around(items, focus, IF last'.key = "Down" THEN 1 ELSE -1)
       IN  /\ focus' = IF hidden /\ to >= 1 THEN focus ELSE to
           /\ hidden => focus = 0
           /\ focus' >= 1 => ~items[focus'].hidden]_vars

\* Up from the input went to the first candidate, the last visible one: the
\* limit hides the second.
C12_Witness ==
  /\ last.op = "onKey"
  /\ last.key = "Up"
  /\ last.target = 0
  /\ focus = 1
  /\ items[2].hidden

\* C13: Escape on a focused candidate selects nothing and leaves the input's
\* value; once the callbacks the key handler queued have run, the list is
\* hidden and the input's value is still the same.
C13_EscapeHides ==
  [][/\ last'.op = "onKey" /\ last'.key = "Escape" /\ last'.target >= 1 =>
          ~last'.select /\ inputValue' = inputValue
     /\ last'.op = "setHidden" /\ last'.type = "keydown" /\ last'.key = "Escape"
          /\ last'.target >= 1 =>
          hidden' /\ inputValue' = inputValue]_vars

\* The callback of an Escape on a candidate has run.
C13_Witness ==
  /\ last.op = "setHidden"
  /\ last.type = "keydown"
  /\ last.key = "Escape"
  /\ last.target >= 1
  /\ observer
  /\ ariaExpanded = "false"

\* C14, as claimed: a click on or a focus of a candidate dispatches
\* suggest.select; not canceled, the input takes the candidate's value or
\* text and the focus; canceled, the input's value is left.
C14_AsClaimed ==
  last.op = "onClick" /\ last.target >= 1 =>
    /\ last.select
    /\ ~last.canceled => inputValue = last.chosen /\ focus = 0
    /\ last.canceled => inputValue = last.before

\* C14, amended: a click on a candidate does so, the input taking the
\* candidate's value or, when it has none, its trimmed text; a focus of a
\* candidate dispatches nothing and leaves the input's value.
C14_ClickSelects ==
  last.op = "onClick" /\ last.target >= 1 =>
    LET item == items[last.target]
    IN  IF last.type = "click"
          THEN /\ last.select
               /\ ~last.canceled =>
                    /\ inputValue = IF item.value # <<>> THEN item.value ELSE trim(item.text)
                    /\ focus = 0
               /\ last.canceled => inputValue = last.before
          ELSE ~last.select /\ inputValue = last.before /\ focus = last.target

\* A click selected the first candidate: the input has its text, trimmed.
C14_Witness ==
  /\ last.op = "onClick"
  /\ last.type = "click"
  /\ last.target = 1
  /\ ~last.canceled
  /\ last.before = <<"b">>
  /\ inputValue = <<"a">>
  /\ focus = 0

\* C15, as claimed: once the callbacks of a click or focus event have run,
\* the list is hidden when the target was outside the widget and not the
\* input, and shown when it was the input or inside the widget.
C15_AsClaimed ==
  last.op = "setHidden" /\ last.type \in {"click", "focusin"} =>
    hidden = (last.target = -1)

\* C15, amended: ... and hidden as well when the event was a click on a
\* candidate.
C15_HiddenUnlessShown ==
  last.op = "setHidden" /\ last.type \in {"click", "focusin"} =>
    hidden = (last.target = -1 \/ (last.type = "click" /\ last.target >= 1))

\* The callback of a click on a candidate has hidden the list.
C15_Witness ==
  /\ last.op = "setHidden"
  /\ last.type = "click"
  /\ last.target >= 1
  /\ hidden
  /\ focus = 0

(***************************************************************************)
(* The debounced fetch (SpecBurst).                                        *)
(***************************************************************************)
\* A burst of two or more keystrokes has ended: the timer of its last
\* keystroke has just fired.
BurstEnded ==
  /\ last.op = "onAjaxSend"
  /\ last.inBurst
  /\ burst.len >= 2
  /\ burst.timers \cap xhrTimers = {}

\* C3, as claimed: a burst of two or more fetch-triggering keystrokes produces
\* exactly one request, which carries the value of the last keystroke.
C3_AsClaimed ==
  BurstEnded => burst.sends = 1 /\ last.url = Url(burst.last)

\* C3, amended: a burst produces at most one request, sent when the timer of
\* its last keystroke fires: exactly one when the widget is then attached, the
\* input is not empty and suggest.ajax.beforeSend is not canceled, and none
\* otherwise; the request carries the value the input has at that moment.
C3_BurstSendsAtMostOnce ==
  BurstEnded =>
    /\ burst.sends = IF last.attached /\ last.value # <<>> /\ ~last.canceled THEN 1 ELSE 0
    /\ last.sent <=> burst.sends = 1
    /\ last.sent => /\ xhr.inflight
                    /\ reqs[xhr.req].url = Url(last.value)
                    /\ last.value = inputValue

\* A burst of two keystrokes that ended with its one request.
C3_Witness ==
  BurstEnded /\ burst.sends = 1 /\ last.sent

\* C9: neither a request nor suggest.ajax.beforeSend is issued while the input
\* is empty.
C9_NeverFetchesEmpty ==
  /\ last.op = "onAjaxSend" /\ (last.announced \/ last.sent) => last.value # <<>>
  /\ \A r \in DOMAIN reqs : reqs[r].value # <<>>

\* The timer fired on an attached widget whose input was empty.
C9_Witness ==
  /\ last.op = "onAjaxSend"
  /\ last.attached
  /\ last.value = <<>>
  /\ ~last.announced

(***************************************************************************)
(* Requests and their completion (SpecAjax).                               *)
(***************************************************************************)
Completion == last.op \in {"load", "error"}

\* C4, as claimed: at most one request is in flight at any moment.
C4_AsClaimed == Cardinality(DOMAIN reqs) <= 1

\* C5, as claimed: a request that a later fetch-triggering keystroke
\* superseded produces neither suggest.ajax nor suggest.ajax.error.
C5_AsClaimed ==
  Completion /\ last.req.superseded => last.outcomes = <<>>

\* C6, as claimed: once the widget was detached, no timer set before the
\* detachment sends a request, and the completion of a request that was in
\* flight at the detachment neither dispatches a notification nor throws.
C6_AsClaimed ==
  /\ last.op = "onAjaxSend" /\ last.stale => ~last.sent
  /\ Completion /\ last.req.detached => last.outcomes = <<>> /\ ~last.threw

\* C7, as claimed, for the requests of a widget that stayed attached: a
\* completion dispatches exactly one notification, suggest.ajax when the
\* status is 200 and the body parses, else suggest.ajax.error.
C7_AsClaimed ==
  Completion /\ ~last.req.detached =>
    /\ ~last.threw
    /\ Len(last.outcomes) = 1
    /\ last.outcomes[1].type =
         IF last.op = "load" /\ last.status = 200 /\ last.body = "json"
           THEN "suggest.ajax" ELSE "suggest.ajax.error"

\* C8, as claimed: every suggest.ajax.error carries a responseError.
C8_AsClaimed ==
  Completion =>
    \A i \in DOMAIN last.outcomes :
      last.outcomes[i].type = "suggest.ajax.error" => last.outcomes[i].responseError # ""

\* C10: a request is sent only by the run of onAjaxSend that dispatched
\* suggest.ajax.beforeSend for it, and only when no listener canceled that:
\* no canceled request is in flight or completes.
C10_SentOnlyIfNotCanceled ==
  /\ last.op = "onAjaxSend" /\ last.sent => last.announced /\ ~last.canceled
  /\ last.op = "onAjaxSend" /\ last.canceled => xhr # Null /\ ~xhr.inflight
  /\ \A r \in DOMAIN reqs : ~reqs[r].canceled
  /\ Completion => ~last.req.canceled

\* suggest.ajax.beforeSend was dispatched and canceled: nothing was sent.
C10_Witness ==
  /\ last.op = "onAjaxSend"
  /\ last.announced
  /\ last.canceled
  /\ ~last.sent

(***************************************************************************)
(* Highlighting (SpecMarks).                                               *)
(***************************************************************************)
\* The occurrences of needle in the text, as the characters from..to.
Occurrences(text, needle) ==
  IF needle = <<>> THEN {}
  ELSE {<<k + 1, k + Len(needle)>> : k \in Hits(toLowerCase(text), needle, 0)}

\* C16, as claimed: a mutation pass in mode keep leaves every mark in place,
\* in mode off leaves no mark, and in mode on leaves exactly the marks
\* around the occurrences of the input's text (lower-cased, trimmed) in the
\* texts of the visible candidates.
C16_AsClaimed ==
  [][last'.op = "onMutation" =>
       \A i \in DOMAIN items' :
         LET mode == Highlight(highlightAttr')
         IN  /\ mode = "keep" => items'[i].marks = items[i].marks
             /\ mode = "off" => items'[i].marks = {}
             /\ mode = "on" /\ ~items'[i].hidden =>
                  items'[i].marks =
                    Occurrences(items'[i].text, trim(toLowerCase(inputValue)))]_vars

(***************************************************************************)
(* The live region and aria-expanded (Spec).                               *)
(***************************************************************************)
\* C17, as claimed: when the list of an attached widget goes from hidden to
\* shown the live region holds the label, and when it goes from shown to
\* hidden the live region is empty.
C17_AsClaimed ==
  [][observer' /\ hidden' # hidden =>
       liveRegion' = IF hidden' THEN "" ELSE LiveLabel]_vars

\* C18: after a mutation pass the visible candidates carry the labels
\* <<1, V>> .. <<V, V>> in document order, V the number of visible candidates.
C18_LabelsCountVisible ==
  last.op = "onMutation" =>
    \A i \in VisibleIdx(items) :
      items[i].label = <<Cardinality({j \in VisibleIdx(items) : j <= i}), NVisible(items)>>

\* A pass hid a candidate over the limit and labelled the one it left.
C18_Witness ==
  /\ last.op = "onMutation"
  /\ limitAttr = <<1>>
  /\ last.before = 2
  /\ items[1].label = <<1, 1>>
  /\ items[2].hidden

\* C20, as claimed: in every state of an attached widget aria-expanded is
\* "true" exactly when the list is not hidden.
C20_AsClaimed ==
  observer => (ariaExpanded = "true" <=> ~hidden)

(***************************************************************************)
(* Keystrokes that do not filter (SpecFilter).                             *)
(***************************************************************************)
\* C19: a keystroke changes no candidate's visibility when a remote endpoint
\* is configured, where it schedules the fetch; a keystroke whose
\* suggest.filter is canceled changes no candidate's visibility either, sets
\* no timer, clears none and aborts no request.
C19_KeystrokeLeavesCandidates ==
  [][last'.op = "onInput" =>
       /\ ajaxAttr # <<>> \/ last'.canceled =>
            /\ Len(items') = Len(items)
            /\ \A i \in DOMAIN items : items'[i].hidden = items[i].hidden
       /\ ajaxAttr # <<>> /\ ~last'.canceled => xhrTime' \in xhrTimers'
       /\ last'.canceled =>
            /\ xhrTimers' = xhrTimers
            /\ xhrTime' = xhrTime
            /\ xhr' = xhr
            /\ reqs' = reqs]_vars

\* A canceled keystroke left the pending timer of the keystroke before it,
\* and the candidates, one visible and one hidden.
C19_Witness ==
  /\ last.op = "onInput"
  /\ last.canceled
  /\ ajaxAttr # <<>>
  /\ xhrTime \in xhrTimers
  /\ inputValue = <<"b">>
  /\ ~items[1].hidden
  /\ items[2].hidden

====
